---- MODULE Spec2Model ----
(***************************************************************************)
(* Model of the Oak file-upload middleware (src/mod.ts): one FileUploader  *)
(* instance, its handler() middleware and the requests it serves.          *)
(*                                                                         *)
(* A string is a sequence of tokens: a token is one character, or an       *)
(* atomic run of URL-safe characters ("uploads", "temp_uploads", a uuid).  *)
(* Every await of the code is a suspension point: an action runs one       *)
(* synchronous segment of the middleware, from one await to the next.      *)
(***************************************************************************)
EXTENDS Integers, Sequences, FiniteSets, TLC

\* ------------------------------------------------------------------ bounds
\* Requests the handler instance serves (they may overlap in time).
MaxReqs == 2
\* Entries decoded from the form data of all requests together.
MaxEntries == 2

\* Files one form carries under the same field name.
MaxFieldFiles == 2

Reqs == 1..MaxReqs

\* ------------------------------------------------------- program constants
Null == <<"null">>

\* Deno.cwd()
Cwd == <<"/", "app">>
\* join(Deno.cwd(), "temp_uploads")
TempUploadsDir == Cwd \o <<"/", "temp_uploads">>

\* ------------------------------------------------------------ input domains
NameJpg == <<"a", ".", "j", "p", "g">>
NamePng == <<"b", " ", "c", ".", "p", "n", "g">>
NameDot == <<"c", ".">>
MimeType(name) == IF name = NameJpg THEN "image/jpeg"
                  ELSE IF name = NamePng THEN "image/png" ELSE ""
File(name, size) ==
    [kind |-> "File", name |-> name, size |-> size, type |-> MimeType(name)]
\* sizes on both sides of maxFileSizeBytes
Files == {File(NameJpg, 1), File(NameJpg, 5), File(NamePng, 1),
          File(NameDot, 1), File(NameDot, 5)}
TextValue == [kind |-> "string", name |-> <<>>, size |-> 0, type |-> ""]
FieldNames == {"avatar", "cover"}
\* the entries a form may carry: every file under "avatar", one file and a
\* text value under "cover"
FormEntries == {[key |-> "avatar", value |-> v] : v \in Files}
                 \cup {[key |-> "cover", value |-> File(NameJpg, 1)],
                       [key |-> "cover", value |-> TextValue]}

\* header values of a request; Null is an absent header
ContentLengths == {Null, <<>>, <<"7">>, <<"1", "2">>}
Multipart == <<"multipart/form-data", ";", " ">>
ContentTypes == {Null, <<>>, <<"multipart/form-data">>,
                 Multipart \o <<"boundary=">>,
                 Multipart \o <<"boundary=", "x", "y">>}
GoodHead == [hasBody |-> TRUE, contentLength |-> <<"7">>,
             contentType |-> Multipart \o <<"boundary=", "x", "y">>]
\* the requests of the model: at most one part differs from GoodHead, or the
\* content-length is too large and the content-type declares no boundary
RequestHeads ==
    {h \in [hasBody : BOOLEAN, contentLength : ContentLengths,
            contentType : ContentTypes] :
        \/ Cardinality({f \in {"hasBody", "contentLength", "contentType"} :
                            h[f] # GoodHead[f]}) <= 1
        \/ /\ h.hasBody /\ h.contentLength = <<"1", "2">>
           /\ h.contentType = <<"multipart/form-data">>}

\* the wall clock values new Date() may return: month is 0-based
Dates == {[year |-> 2025, month |-> 0, date |-> 26, hours |-> 18,
           minutes |-> 23, seconds |-> 8]}

\* the options a FileUploader may be constructed with
OptionSets ==
    {o \in [extensions : {<<>>, <<<<"j", "p", "g">>>>},
            maxSizeBytes : {10},
            maxFileSizeBytes : {3},
            saveFile : BOOLEAN, readFile : BOOLEAN,
            useCurrentDir : BOOLEAN, useDateTimeSubDir : BOOLEAN,
            onError : {"sync", "async"}] :
        \* the two path options are read only when files are saved
        ~o.saveFile => o.useCurrentDir /\ o.useDateTimeSubDir}

VARIABLES
    path,              \* FileUploader.path
    options,           \* FileUploader.options
    validationErrors,  \* FileUploader.validationErrors
    result,            \* FileUploader.result.data
    task,              \* per request: the middleware invocation's locals
    dirs,              \* directories that exist
    fs,                \* files written: path -> File
    uuids,             \* number of crypto.randomUUID() calls so far
    io                 \* history: the I/O operations started, per request and entry

vars == <<path, options, validationErrors, result, task, dirs, fs, uuids, io>>

\* ---------------------------------------------------------------- strings
Digit == <<"0", "1", "2", "3", "4", "5", "6", "7", "8", "9">>
IsDigit(c) == \E d \in 1..10 : Digit[d] = c
DigitValue(c) == (CHOOSE d \in 1..10 : Digit[d] = c) - 1

\* Number.prototype.toString() of a non-negative integer
RECURSIVE ToStr(_)
ToStr(n) == IF n < 10 THEN <<Digit[n + 1]>>
            ELSE ToStr(n \div 10) \o <<Digit[(n % 10) + 1]>>

\* String.prototype.padStart(2, "0")
PadStart2(s) == IF Len(s) < 2 THEN <<"0">> \o s ELSE s

\* NaN, the value of parseInt on a string that starts with no digit
NaN == -1

\* parseInt(s): the value of the longest prefix of decimal digits, NaN if empty
RECURSIVE DigitsValue(_, _)
DigitsValue(s, acc) ==
    IF s = <<>> \/ ~IsDigit(Head(s)) THEN acc
    ELSE DigitsValue(Tail(s), acc * 10 + DigitValue(Head(s)))
ParseInt(s) == IF s = <<>> \/ ~IsDigit(Head(s)) THEN NaN ELSE DigitsValue(s, 0)

\* a > b of two numbers, one of which may be NaN
GreaterThan(a, b) == a # NaN /\ b # NaN /\ a > b

\* the places of token c in s
Places(s, c) == {k \in 1..Len(s) : s[k] = c}
Max(S) == CHOOSE m \in S : \A k \in S : k <= m
Min(S) == CHOOSE m \in S : \A k \in S : m <= k

\* filename.split(".").pop() ?? "": the part after the last ".", and the whole
\* name when it has no "."
SplitPop(filename) ==
    IF Places(filename, ".") = {} THEN filename
    ELSE SubSeq(filename, Max(Places(filename, ".")) + 1, Len(filename))

\* contentType.match(/boundary=(.*)$/): match[1], or Null without a match
Boundary(contentType) ==
    IF Places(contentType, "boundary=") = {} THEN Null
    ELSE SubSeq(contentType, Min(Places(contentType, "boundary=")) + 1,
                Len(contentType))

\* join(a, b) of @std/path, for segments that need no normalisation
Join(a, b) == IF a = <<>> THEN b ELSE IF b = <<>> THEN a ELSE a \o <<"/">> \o b

\* s.replace(pat, rep) with a string pattern: the first occurrence only
Occurrences(s, pat) ==
    {k \in 1..(Len(s) - Len(pat) + 1) : SubSeq(s, k, k + Len(pat) - 1) = pat}
Replace(s, pat, rep) ==
    IF Occurrences(s, pat) = {} THEN s
    ELSE LET k == Min(Occurrences(s, pat))
         IN  SubSeq(s, 1, k - 1) \o rep \o SubSeq(s, k + Len(pat), Len(s))

\* s.replace(/\\/g, "/")
SlashAll(s) == [k \in 1..Len(s) |-> IF s[k] = "\\" THEN "/" ELSE s[k]]

\* encodeURI(s): a space and a "%" are escaped, every other token of the model
\* is a character encodeURI keeps
RECURSIVE EncodeURI(_)
EncodeURI(s) ==
    IF s = <<>> THEN <<>>
    ELSE (IF Head(s) = " " THEN <<"%", "2", "0">>
          ELSE IF Head(s) = "%" THEN <<"%", "2", "5">>
          ELSE <<Head(s)>>) \o EncodeURI(Tail(s))

\* crypto.randomUUID(): the n-th identifier generated
Uuid(n) == "uuid" \o ToString(n)

\* the bytes file.arrayBuffer() yields
Bytes(file) == <<"bytes-of">> \o file.name

\* ------------------------------------------------------------ the handler
NoFile == [kind |-> "none", name |-> <<>>, size |-> 0, type |-> ""]
NoError == [kind |-> "none", messages |-> <<>>]
Error(kind) == [kind |-> kind, messages |-> <<>>]

\* const processedFile = { filename: "", contents: null, size: 0, ... }
EmptyProcessedFile ==
    [filename |-> <<>>, contents |-> Null, size |-> 0, type |-> "",
     uri |-> <<>>, url |-> <<>>]

\* the locals of a middleware invocation that has not started
IdleTask ==
    [pc |-> "idle", request |-> [hasBody |-> FALSE, contentLength |-> Null,
                                 contentType |-> Null],
     entries |-> <<>>, i |-> 0, processedFile |-> EmptyProcessedFile,
     target |-> <<>>, error |-> NoError, onErrorCalls |-> 0, nextCalls |-> 0,
     uploadedFiles |-> "unset"]

\* an I/O operation started for entry idx of request r
IoEvent(r, idx, op, p) == [req |-> r, idx |-> idx, op |-> op, path |-> p]

\* PreconditionError without the test of request.hasBody
PreconditionErrorNoBodyTest(request, opts) ==
    IF request.contentLength = Null \/ request.contentLength = <<>>
         THEN Error("Content length is 0")
    ELSE IF request.contentType = Null \/ request.contentType = <<>>
         THEN Error("Content type is missing")
    ELSE IF GreaterThan(ParseInt(request.contentLength), opts.maxSizeBytes)
         THEN Error("Total upload size exceeded")
    ELSE IF Boundary(request.contentType) = Null
            \/ Boundary(request.contentType) = <<>>
         THEN Error("Invalid form data")
    ELSE NoError

\* PreconditionError comparing the content-length with maxFileSizeBytes
PreconditionErrorFileLimit(request, opts) ==
    IF ~request.hasBody THEN Error("Request is missing a body")
    ELSE IF request.contentLength = Null \/ request.contentLength = <<>>
         THEN Error("Content length is 0")
    ELSE IF request.contentType = Null \/ request.contentType = <<>>
         THEN Error("Content type is missing")
    ELSE IF GreaterThan(ParseInt(request.contentLength), opts.maxFileSizeBytes)
         THEN Error("Total upload size exceeded")
    ELSE IF Boundary(request.contentType) = Null
            \/ Boundary(request.contentType) = <<>>
         THEN Error("Invalid form data")
    ELSE NoError

\* the checks of the middleware before the form data is decoded: the error
\* thrown, or NoError
PreconditionError(request, opts) ==
    IF ~request.hasBody THEN Error("Request is missing a body")
    ELSE IF request.contentLength = Null \/ request.contentLength = <<>>
         THEN Error("Content length is 0")
    ELSE IF request.contentType = Null \/ request.contentType = <<>>
         THEN Error("Content type is missing")
    ELSE IF GreaterThan(ParseInt(request.contentLength), opts.maxSizeBytes)
         THEN Error("Total upload size exceeded")
    ELSE IF Boundary(request.contentType) = Null
            \/ Boundary(request.contentType) = <<>>
         THEN Error("Invalid form data")
    ELSE NoError

\* Catch that returns after onError without the next() that follows the try
CatchAndReturn(t, error, opts) ==
    IF opts.onError = "async"
    THEN [t EXCEPT !.error = error, !.onErrorCalls = @ + 1, !.pc = "onError"]
    ELSE [t EXCEPT !.error = error, !.onErrorCalls = @ + 1, !.pc = "done"]

\* Catch that goes on to next() without calling onError
CatchWithoutOnError(t, error, opts) ==
    [t EXCEPT !.error = error, !.nextCalls = @ + 1, !.pc = "next2"]

\* catch (error): onError is called; unless it returned a promise the
\* middleware goes on to the next() after the try statement
Catch(t, error, opts) ==
    IF opts.onError = "async"
    THEN [t EXCEPT !.error = error, !.onErrorCalls = @ + 1, !.pc = "onError"]
    ELSE [t EXCEPT !.error = error, !.onErrorCalls = @ + 1,
                   !.nextCalls = @ + 1, !.pc = "next2"]

\* IoFailure that swallows the rejection: processFiles returns its entry
IoFailureSwallowed(t, kind, opts) == [t EXCEPT !.pc = "returned"]

\* ensureDir or Deno.writeFile rejects: nothing between the await and the
\* catch clause of the middleware handles the error
IoFailure(t, kind, opts) == Catch(t, Error(kind), opts)

\* AfterEntries without the test of the error list: the result is attached
AfterEntriesIgnoringErrors(t, ve, opts) ==
    [t EXCEPT !.uploadedFiles = "this.result", !.nextCalls = @ + 1,
              !.pc = "next1"]

\* after the loop over the entries: the aggregated error, or the result is
\* attached (by reference) and next() is called inside the try statement
AfterEntries(t, ve, opts) ==
    IF Len(ve) > 0
    THEN Catch(t, [kind |-> "Unprocessable Entity", messages |-> ve], opts)
    ELSE [t EXCEPT !.uploadedFiles = "this.result", !.nextCalls = @ + 1,
                   !.pc = "next1"]

\* if (!extension && !this.options.extensions.includes(extension))
ExtensionRejected(extension, extensions) ==
    extension = <<>> /\ ~(\E k \in 1..Len(extensions) : extensions[k] = extension)

\* SizeRejected with the comparison turned round
SizeRejectedBelow(size, maxFileSizeBytes) == size < maxFileSizeBytes

\* if (file.size > this.options.maxFileSizeBytes)
SizeRejected(size, maxFileSizeBytes) == size > maxFileSizeBytes

ExtensionMessage(filename, extension, extensions) ==
    [kind |-> "File extension is not allowed", filename |-> filename,
     extension |-> extension, allowed |-> extensions, size |-> 0, limit |-> 0]
SizeMessage(filename, size, limit) ==
    [kind |-> "File size exceeds limit", filename |-> filename,
     extension |-> <<>>, allowed |-> <<>>, size |-> size, limit |-> limit]

\* the directory chain of saveFileToDisk under useDateTimeSubDir
SubDirTree(now, uuid) ==
    Join(ToStr(now.year),
    Join(PadStart2(ToStr(now.month + 1)),
    Join(PadStart2(ToStr(now.date)),
    Join(PadStart2(ToStr(now.hours)),
    Join(PadStart2(ToStr(now.minutes)),
    Join(PadStart2(ToStr(now.seconds)), <<uuid>>))))))

\* saveFileToDisk up to ensureDir: fullPath
FullPath(base, opts, now, uuid) ==
    LET uploadPath == IF opts.useDateTimeSubDir
                      THEN Join(base, SubDirTree(now, uuid)) ELSE base
    IN  IF opts.useCurrentDir THEN Join(Cwd, uploadPath) ELSE uploadPath

\* TempFilePath without the unique id
TempFilePathByName(uuid, filename) == Join(TempUploadsDir, filename)

\* the temporary path of processFiles under saveFile = false
TempFilePath(uuid, filename) == Join(TempUploadsDir, <<uuid, "_">> \o filename)

\* Url without encodeURI
UrlUnencoded(savedFilePath) ==
    LET stripped == SlashAll(Replace(savedFilePath, Cwd, <<>>))
    IN  IF stripped # <<>> /\ Head(stripped) = "/" THEN stripped
        ELSE <<"/">> \o stripped

\* processedFile.url of a saved file
Url(savedFilePath) ==
    LET stripped == SlashAll(Replace(savedFilePath, Cwd, <<>>))
        rooted == IF stripped # <<>> /\ Head(stripped) = "/" THEN stripped
                  ELSE <<"/">> \o stripped
    IN  EncodeURI(rooted)

\* ------------------------------------------- synchronous segments of the code
\* what a segment leaves behind: the task of the request and the shared state
Bundle(t, ve, uu, ev) ==
    [task |-> t, validationErrors |-> ve, uuids |-> uu, io |-> ev]

Put(f, k, v) == [x \in DOMAIN f \cup {k} |-> IF x = k THEN v ELSE f[x]]

CurrentEntry(t) == t.entries[t.i]
CurrentFile(t) == CurrentEntry(t).value

\* processFiles from the saveFile test to its next await: saveFileToDisk up
\* to ensureDir, or the temporary path up to file.arrayBuffer()
StoreFile(b, r, now) ==
    LET t == b.task
        file == CurrentFile(t)
    IN  IF options.saveFile
        THEN LET uu == IF options.useDateTimeSubDir THEN b.uuids + 1 ELSE b.uuids
                 fullPath == FullPath(path, options, now, Uuid(uu))
             IN  [b EXCEPT !.task = [t EXCEPT !.target = fullPath,
                                              !.pc = "ensureDir"],
                           !.uuids = uu,
                           !.io = @ \cup {IoEvent(r, t.i, "ensureDir", fullPath)}]
        ELSE LET uu == b.uuids + 1
                 tempFilePath == TempFilePath(Uuid(uu), file.name)
             IN  [b EXCEPT !.task = [t EXCEPT !.target = tempFilePath,
                                              !.pc = "tempRead"],
                           !.uuids = uu,
                           !.io = @ \cup {IoEvent(r, t.i, "arrayBuffer", <<>>)}]

\* processFiles([file]) from its start to its first await, or to its return
\* when the file is rejected
ProcessFiles(b, r, now) ==
    LET t == b.task
        file == CurrentFile(t)
        filename == file.name
        extension == SplitPop(filename)
        processedFile == [EmptyProcessedFile EXCEPT !.filename = filename,
                                                    !.type = file.type,
                                                    !.size = file.size]
        started == [t EXCEPT !.processedFile = processedFile]
    IN  IF ExtensionRejected(extension, options.extensions)
        THEN [b EXCEPT !.task = [started EXCEPT !.pc = "returned"],
                       !.validationErrors =
                           Append(@, ExtensionMessage(filename, extension,
                                                      options.extensions))]
        ELSE IF SizeRejected(file.size, options.maxFileSizeBytes)
        THEN [b EXCEPT !.task = [started EXCEPT !.pc = "returned"],
                       !.validationErrors =
                           Append(@, SizeMessage(filename, file.size,
                                                 options.maxFileSizeBytes))]
        ELSE IF options.readFile
        THEN [b EXCEPT !.task = [started EXCEPT !.pc = "arrayBuffer"],
                       !.io = @ \cup {IoEvent(r, t.i, "arrayBuffer", <<>>)}]
        ELSE StoreFile([b EXCEPT !.task = started], r, now)

\* the first entry at or after place from whose value is a File
NextFileEntry(entries, from) ==
    LET S == {k \in from..Len(entries) : entries[k].value.kind = "File"}
    IN  IF S = {} THEN Len(entries) + 1 ELSE Min(S)

\* EntriesFrom that leaves the loop as soon as the error list is not empty
EntriesFromUntilError(b, r, from, now) ==
    LET k == NextFileEntry(b.task.entries, from)
        at == [b EXCEPT !.task = [@ EXCEPT !.i = k]]
    IN  IF Len(b.validationErrors) > 0
        THEN [b EXCEPT !.task = AfterEntries(@, b.validationErrors, options)]
        ELSE IF k > Len(b.task.entries)
        THEN [at EXCEPT !.task = AfterEntries(@, b.validationErrors, options)]
        ELSE ProcessFiles(at, r, now)

\* for (const [key, value] of entries), from place from to the next await
EntriesFrom(b, r, from, now) ==
    LET k == NextFileEntry(b.task.entries, from)
        at == [b EXCEPT !.task = [@ EXCEPT !.i = k]]
    IN  IF k > Len(b.task.entries)
        THEN [at EXCEPT !.task = AfterEntries(@, b.validationErrors, options)]
        ELSE ProcessFiles(at, r, now)

\* the entries decoded so far by all requests
RECURSIVE Decoded(_, _)
Decoded(tk, S) ==
    IF S = {} THEN 0
    ELSE LET q == CHOOSE x \in S : TRUE
         IN  Len(tk[q].entries) + Decoded(tk, S \ {q})

EntryLists(n) == UNION {[1..m -> FormEntries] : m \in 0..n}

Commit(b, r) ==
    /\ task' = [task EXCEPT ![r] = b.task]
    /\ validationErrors' = b.validationErrors
    /\ uuids' = b.uuids
    /\ io' = b.io

Here(r) == Bundle(task[r], validationErrors, uuids, io)

\* ------------------------------------------------------------------ actions
Init ==
    /\ path = <<"uploads">>
    /\ options \in OptionSets
    /\ validationErrors = <<>>
    /\ result = [k \in {} |-> EmptyProcessedFile]
    /\ task = [r \in Reqs |-> IdleTask]
    /\ dirs = {TempUploadsDir}
    /\ fs = [p \in {} |-> NoFile]
    /\ uuids = 0
    /\ io = {}

\* a request reaches the middleware: the checks before the form data
Middleware(r) ==
    /\ task[r].pc = "idle"
    /\ \A q \in Reqs : q < r => task[q].pc # "idle"
    /\ \E head \in RequestHeads :
          LET t == [IdleTask EXCEPT !.request = head]
              e == PreconditionError(head, options)
          IN  task' = [task EXCEPT ![r] =
                          IF e # NoError THEN Catch(t, e, options)
                          ELSE [t EXCEPT !.pc = "formData"]]
    /\ UNCHANGED <<path, options, validationErrors, result, dirs, fs, uuids, io>>

\* await request.body.formData() resolves; the loop runs to its first await
FormData(r) ==
    /\ task[r].pc = "formData"
    /\ \E es \in EntryLists(MaxEntries - Decoded(task, Reqs)), now \in Dates :
          Commit(EntriesFrom([Here(r) EXCEPT !.task.entries = es], r, 1, now), r)
    /\ UNCHANGED <<path, options, result, dirs, fs>>

\* await file.arrayBuffer() of readFile resolves
ArrayBuffer(r) ==
    /\ task[r].pc = "arrayBuffer"
    /\ \E now \in Dates :
          Commit(StoreFile([Here(r) EXCEPT !.task.processedFile.contents =
                                               Bytes(CurrentFile(task[r]))],
                           r, now), r)
    /\ UNCHANGED <<path, options, result, dirs, fs>>

\* await ensureDir(fullPath) settles
EnsureDir(r) ==
    /\ task[r].pc = "ensureDir"
    /\ \E ok \in BOOLEAN :
          LET t == task[r]
              filePath == Join(t.target, CurrentFile(t).name)
          IN  IF ok
              THEN /\ dirs' = dirs \cup {t.target}
                   /\ task' = [task EXCEPT ![r] = [t EXCEPT !.target = filePath,
                                                            !.pc = "saveRead"]]
                   /\ io' = io \cup {IoEvent(r, t.i, "arrayBuffer", <<>>)}
              ELSE /\ dirs' = dirs
                   /\ task' = [task EXCEPT ![r] =
                                  IoFailure(t, "ensureDir failed", options)]
                   /\ io' = io \cup {IoEvent(r, t.i, "failure", t.target)}
    /\ UNCHANGED <<path, options, validationErrors, result, fs, uuids>>

\* await file.arrayBuffer() of saveFileToDisk resolves; Deno.writeFile starts
SaveRead(r) ==
    /\ task[r].pc = "saveRead"
    /\ task' = [task EXCEPT ![r].pc = "writeFile"]
    /\ io' = io \cup {IoEvent(r, task[r].i, "writeFile", task[r].target)}
    /\ UNCHANGED <<path, options, validationErrors, result, dirs, fs, uuids>>

\* await Deno.writeFile(filePath) settles; processFiles fills uri and url
WriteFile(r) ==
    /\ task[r].pc = "writeFile"
    /\ \E ok \in BOOLEAN :
          LET t == task[r]
          IN  IF ok
              THEN /\ fs' = Put(fs, t.target, CurrentFile(t))
                   /\ task' = [task EXCEPT ![r] =
                                  [t EXCEPT !.processedFile.uri = t.target,
                                            !.processedFile.url = Url(t.target),
                                            !.pc = "returned"]]
                   /\ io' = io
              ELSE /\ fs' = fs
                   /\ task' = [task EXCEPT ![r] =
                                  IoFailure(t, "writeFile failed", options)]
                   /\ io' = io \cup {IoEvent(r, t.i, "failure", t.target)}
    /\ UNCHANGED <<path, options, validationErrors, result, dirs, uuids>>

\* await file.arrayBuffer() of the temporary path resolves; Deno.writeFile starts
TempRead(r) ==
    /\ task[r].pc = "tempRead"
    /\ task' = [task EXCEPT ![r].pc = "tempWrite"]
    /\ io' = io \cup {IoEvent(r, task[r].i, "writeFile", task[r].target)}
    /\ UNCHANGED <<path, options, validationErrors, result, dirs, fs, uuids>>

\* await Deno.writeFile(tempFilePath) settles
TempWrite(r) ==
    /\ task[r].pc = "tempWrite"
    /\ \E ok \in BOOLEAN :
          LET t == task[r]
          IN  IF ok
              THEN /\ fs' = Put(fs, t.target, CurrentFile(t))
                   /\ task' = [task EXCEPT ![r] =
                                  [t EXCEPT !.processedFile.uri = t.target,
                                            !.processedFile.url = <<>>,
                                            !.pc = "returned"]]
                   /\ io' = io
              ELSE /\ fs' = fs
                   /\ task' = [task EXCEPT ![r] =
                                  IoFailure(t, "writeFile failed", options)]
                   /\ io' = io \cup {IoEvent(r, t.i, "failure", t.target)}
    /\ UNCHANGED <<path, options, validationErrors, result, dirs, uuids>>

\* await this.processFiles([value]) resolves: this.result.data[key] is set and
\* the loop goes on
Returned(r) ==
    /\ task[r].pc = "returned"
    /\ result' = Put(result, CurrentEntry(task[r]).key, task[r].processedFile)
    /\ \E now \in Dates : Commit(EntriesFrom(Here(r), r, task[r].i + 1, now), r)
    /\ UNCHANGED <<path, options, dirs, fs>>

\* the promise onError returned resolves; next() after the try statement
OnErrorDone(r) ==
    /\ task[r].pc = "onError"
    /\ task' = [task EXCEPT ![r].nextCalls = @ + 1, ![r].pc = "next2"]
    /\ UNCHANGED <<path, options, validationErrors, result, dirs, fs, uuids, io>>

\* await next() inside the try statement settles
Next1Done(r) ==
    /\ task[r].pc = "next1"
    /\ \E ok \in BOOLEAN :
          task' = [task EXCEPT ![r] =
                      IF ok THEN [@ EXCEPT !.nextCalls = @ + 1, !.pc = "next2"]
                      ELSE Catch(@, Error("downstream failed"), options)]
    /\ UNCHANGED <<path, options, validationErrors, result, dirs, fs, uuids, io>>

\* await next() after the try statement settles: the middleware is over
Next2Done(r) ==
    /\ task[r].pc = "next2"
    /\ task' = [task EXCEPT ![r].pc = "done"]
    /\ UNCHANGED <<path, options, validationErrors, result, dirs, fs, uuids, io>>

Next ==
    \E r \in Reqs :
        \/ Middleware(r)
        \/ FormData(r)
        \/ ArrayBuffer(r)
        \/ EnsureDir(r)
        \/ SaveRead(r)
        \/ WriteFile(r)
        \/ TempRead(r)
        \/ TempWrite(r)
        \/ Returned(r)
        \/ OnErrorDone(r)
        \/ Next1Done(r)
        \/ Next2Done(r)

Spec == Init /\ [][Next]_vars

\* ------------------------------------------- forms that repeat a field name
\* formData.append("avatar", file) more than once: entries() yields one entry
\* per file, all under the same key; both files pass validation
RepeatedEntries ==
    {[key |-> "avatar", value |-> v] : v \in {File(NameJpg, 1), File(NamePng, 1)}}
RepeatedForms == UNION {[1..m -> RepeatedEntries] : m \in 0..MaxFieldFiles}
\* every saved file gets a path of its own: the date and id sub-directory
RepeatedOptionSets ==
    {o \in OptionSets :
        o.extensions = <<>> /\ o.useCurrentDir /\ o.useDateTimeSubDir}

InitRepeated ==
    /\ path = <<"uploads">>
    /\ options \in RepeatedOptionSets
    /\ validationErrors = <<>>
    /\ result = [k \in {} |-> EmptyProcessedFile]
    /\ task = [r \in Reqs |-> IdleTask]
    /\ dirs = {TempUploadsDir}
    /\ fs = [p \in {} |-> NoFile]
    /\ uuids = 0
    /\ io = {}

\* await request.body.formData() resolves with a form that repeats a field
FormDataRepeated(r) ==
    /\ task[r].pc = "formData"
    /\ \E es \in RepeatedForms, now \in Dates :
          Commit(EntriesFrom([Here(r) EXCEPT !.task.entries = es], r, 1, now), r)
    /\ UNCHANGED <<path, options, result, dirs, fs>>

NextRepeated ==
    \E r \in Reqs :
        \/ Middleware(r)
        \/ FormDataRepeated(r)
        \/ ArrayBuffer(r)
        \/ EnsureDir(r)
        \/ SaveRead(r)
        \/ WriteFile(r)
        \/ TempRead(r)
        \/ TempWrite(r)
        \/ Returned(r)
        \/ OnErrorDone(r)
        \/ Next1Done(r)
        \/ Next2Done(r)

SpecRepeated == InitRepeated /\ [][NextRepeated]_vars

\* ------------------------------------------------- vocabulary of the claims
Range(s) == {s[k] : k \in 1..Len(s)}

Started(r) == task[r].pc # "idle"
\* the loop over the entries of request r has run to its end
LoopDone(r) == Started(r) /\ task[r].pc # "formData"
               /\ task[r].i > Len(task[r].entries)
\* the places of the File entries of request r
FilePlaces(r) ==
    {j \in 1..Len(task[r].entries) : task[r].entries[j].value.kind = "File"}
FileAt(r, j) == task[r].entries[j].value
\* processFiles has started on entry j of request r
Processed(r, j) == j \in FilePlaces(r) /\ task[r].i >= j
IoOf(r, j) == {e \in io : e.req = r /\ e.idx = j}
IoFailed(r) == \E e \in io : e.req = r /\ e.op = "failure"
Attached(r) == task[r].uploadedFiles = "this.result"

\* the extension as the documentation defines it: the part after the last
\* ".", nothing when the name has no "."
AfterLastDot(name) ==
    IF \A k \in 1..Len(name) : name[k] # "." THEN <<>>
    ELSE LET last == CHOOSE k \in 1..Len(name) :
                        /\ name[k] = "."
                        /\ \A m \in (k + 1)..Len(name) : name[m] # "."
         IN  [m \in 1..(Len(name) - last) |-> name[last + m]]
\* the file is one the documented extension policy rejects
NotAllowed(file) ==
    options.extensions # <<>> /\ AfterLastDot(file.name) \notin Range(options.extensions)
TooLarge(file) == file.size > options.maxFileSizeBytes
Names(file, ve) == \E k \in 1..Len(ve) : ve[k].filename = file.name

\* the file is one the validator of processFiles lets through
Accepted(file) ==
    /\ ~ExtensionRejected(SplitPop(file.name), options.extensions)
    /\ ~SizeRejected(file.size, options.maxFileSizeBytes)

\* C1: once the entries of a request are processed, every file of it whose
\* extension is not in a non-empty allow-list is named by a recorded validation
\* error, onError got the aggregated error and no result is attached.
C1_ExtensionRejected ==
    \A r \in Reqs :
        LoopDone(r) =>
            \A j \in FilePlaces(r) :
                NotAllowed(FileAt(r, j)) =>
                    /\ Names(FileAt(r, j), validationErrors)
                    /\ task[r].error.kind = "Unprocessable Entity"
                    /\ Names(FileAt(r, j), task[r].error.messages)
                    /\ ~Attached(r)

\* C2: a file larger than maxFileSizeBytes gets a validation error naming it
\* as soon as it is processed, and no read, directory creation or write is
\* ever started for it.
C2_TooLargeNotStored ==
    \A r \in Reqs :
        \A j \in FilePlaces(r) :
            TooLarge(FileAt(r, j)) =>
                /\ IoOf(r, j) = {}
                /\ Processed(r, j) =>
                      /\ Names(FileAt(r, j), validationErrors)
                      /\ task[r].i = j => /\ task[r].pc = "returned"
                                          /\ task[r].processedFile.uri = <<>>
                                          /\ task[r].processedFile.contents = Null
C2_Witness ==
    \E r \in Reqs :
        /\ LoopDone(r) /\ options.readFile /\ options.saveFile
        /\ \E j \in FilePlaces(r) :
              TooLarge(FileAt(r, j)) /\ FileAt(r, j).name = NameJpg
        /\ \E j \in FilePlaces(r) : IoOf(r, j) # {}

\* C3: a request that passes the preconditions and all of whose files pass
\* validation is not failed with the aggregated validation error.
C3_ErrorsPerRequest ==
    \A r \in Reqs :
        (FilePlaces(r) # {} /\ \A j \in FilePlaces(r) : Accepted(FileAt(r, j))) =>
            task[r].error.kind # "Unprocessable Entity"

\* C4: the result attached to a request holds exactly the fields of the files
\* that request carried.
C4_ResultPerRequest ==
    \A r \in Reqs :
        Attached(r) =>
            DOMAIN result = {task[r].entries[j].key : j \in FilePlaces(r)}

PreconditionKinds ==
    {"Request is missing a body", "Content length is 0",
     "Content type is missing", "Total upload size exceeded", "Invalid form data"}
IoKinds == {"ensureDir failed", "writeFile failed"}

\* the decimal number a string of digits writes
RECURSIVE Decimal(_)
Decimal(s) ==
    IF s = <<>> THEN 0
    ELSE Decimal(SubSeq(s, 1, Len(s) - 1)) * 10 + DigitValue(s[Len(s)])

\* the request declares no body, content-length, content-type or boundary
Undeclared(request) ==
    \/ ~request.hasBody
    \/ request.contentLength = Null
    \/ request.contentType = Null
    \/ "boundary=" \notin Range(request.contentType)
\* the request declares a content-length above maxSizeBytes
TooLong(request) ==
    /\ request.contentLength # Null /\ request.contentLength # <<>>
    /\ Decimal(request.contentLength) > options.maxSizeBytes
\* the request reaches the comparison with maxSizeBytes
Compared(request) ==
    /\ request.hasBody
    /\ request.contentLength # Null /\ request.contentLength # <<>>
    /\ request.contentType # Null /\ request.contentType # <<>>
\* nothing of the request was decoded, validated, read or written
Untouched(r) ==
    /\ task[r].entries = <<>> /\ task[r].i = 0
    /\ task[r].processedFile = EmptyProcessedFile
    /\ \A e \in io : e.req # r
    /\ task[r].pc \in {"onError", "next2", "done"}

\* C5: a request that fails a precondition, has processed its entries with a
\* rejected file among them, or met an I/O failure has had onError called
\* exactly once, with the error raised; no request has it called twice.
C5_OnErrorOnce ==
    \A r \in Reqs :
        /\ task[r].onErrorCalls <= 1
        /\ (Started(r) /\ (Undeclared(task[r].request) \/ TooLong(task[r].request))) =>
              /\ task[r].onErrorCalls = 1
              /\ task[r].error.kind \in PreconditionKinds
        /\ (LoopDone(r) /\ \E j \in FilePlaces(r) : ~Accepted(FileAt(r, j))) =>
              /\ task[r].onErrorCalls = 1
              /\ task[r].error.kind = "Unprocessable Entity"
              /\ \A j \in FilePlaces(r) :
                    ~Accepted(FileAt(r, j)) =>
                        Names(FileAt(r, j), task[r].error.messages)
        /\ IoFailed(r) =>
              /\ task[r].onErrorCalls = 1
              /\ task[r].error.kind \in IoKinds
C5_Witness ==
    /\ task[1].pc = "done" /\ Undeclared(task[1].request)
    /\ task[2].pc = "done" /\ IoFailed(2) /\ task[2].onErrorCalls = 1

\* C6: a request that declares no body, content-length, content-type or
\* boundary has onError called at once; its form data is never decoded, none
\* of its files is validated, read or written, and no step of it changes the
\* error list, the result or the file system.
C6_Inv ==
    \A r \in Reqs :
        (Started(r) /\ Undeclared(task[r].request)) =>
            /\ Untouched(r)
            /\ task[r].onErrorCalls = 1
            /\ task[r].error.kind \in PreconditionKinds
            /\ ~Attached(r)
C6_Step ==
    \A r \in Reqs :
        (task'[r] # task[r] /\ Undeclared(task'[r].request)) =>
            UNCHANGED <<validationErrors, result, fs, dirs, uuids, io>>
\* C6: the state part and the step part above, together: a request that
\* declares no body, content-length, content-type or boundary goes to onError
\* without anything of it being decoded, validated, read, written or changed.
C6_PreconditionStops == []C6_Inv /\ [][C6_Step]_vars
C6_Witness ==
    /\ task[1].pc = "done" /\ task[1].request.hasBody
    /\ task[1].request.contentLength = <<"7">>
    /\ task[1].request.contentType = <<"multipart/form-data">>
    /\ task[2].pc = "done" /\ task[2].request.contentLength = Null

\* C7: among the requests that reach the comparison, exactly those whose
\* declared content-length exceeds maxSizeBytes fail with the total-size
\* error, and they fail before anything of the request is decoded or stored.
C7_TotalSize ==
    \A r \in Reqs :
        (Started(r) /\ Compared(task[r].request)) =>
            /\ TooLong(task[r].request) <=>
                  task[r].error.kind = "Total upload size exceeded"
            /\ TooLong(task[r].request) =>
                  /\ Untouched(r)
                  /\ task[r].onErrorCalls = 1
                  /\ ~Attached(r)
C7_Witness ==
    /\ task[1].pc = "done" /\ Compared(task[1].request)
    /\ TooLong(task[1].request)
    /\ "boundary=" \in Range(task[1].request.contentType)
    /\ task[2].pc = "done" /\ ~TooLong(task[2].request) /\ Attached(2)

\* decodeURI(s): the escapes of a space and of a "%" are undone
RECURSIVE DecodeURI(_)
DecodeURI(s) ==
    IF s = <<>> THEN <<>>
    ELSE IF Len(s) >= 3 /\ SubSeq(s, 1, 3) = <<"%", "2", "0">>
         THEN <<" ">> \o DecodeURI(SubSeq(s, 4, Len(s)))
    ELSE IF Len(s) >= 3 /\ SubSeq(s, 1, 3) = <<"%", "2", "5">>
         THEN <<"%">> \o DecodeURI(SubSeq(s, 4, Len(s)))
    ELSE <<Head(s)>> \o DecodeURI(Tail(s))

StartsWith(s, prefix) ==
    Len(s) >= Len(prefix) /\ SubSeq(s, 1, Len(prefix)) = prefix
EndsWith(s, suffix) ==
    Len(s) >= Len(suffix) /\ SubSeq(s, Len(s) - Len(suffix) + 1, Len(s)) = suffix

\* the entry of a stored file named name is as C8 says
StoredAsConfigured(pf) ==
    /\ pf.uri \in DOMAIN fs
    /\ fs[pf.uri].name = pf.filename
    /\ IF options.saveFile
       THEN /\ EndsWith(pf.uri, <<"/">> \o pf.filename)
            /\ ~StartsWith(pf.uri, TempUploadsDir)
            /\ StartsWith(pf.uri, IF options.useCurrentDir
                                  THEN Cwd \o <<"/">> \o path ELSE path)
            /\ Head(pf.url) = "/"
            /\ " " \notin Range(pf.url)
            /\ DecodeURI(pf.url) =
                  (IF options.useCurrentDir
                   THEN SubSeq(pf.uri, Len(Cwd) + 1, Len(pf.uri))
                   ELSE <<"/">> \o pf.uri)
       ELSE /\ pf.url = <<>>
            /\ StartsWith(pf.uri, TempUploadsDir \o <<"/">>)
            /\ EndsWith(pf.uri, pf.filename)

\* C8: the entry of an accepted file, when processFiles returns it and in the
\* result: without saveFile an empty url and a uri in temp_uploads; with
\* saveFile the uri is a path that was written, it ends in the file's name, and
\* the url is that path from the working directory on, rooted at "/" and
\* URL-encoded.
C8_UriAndUrl ==
    /\ \A r \in Reqs :
          (task[r].pc = "returned" /\ Accepted(CurrentFile(task[r]))) =>
              /\ task[r].processedFile.filename = CurrentFile(task[r]).name
              /\ StoredAsConfigured(task[r].processedFile)
    /\ \A k \in DOMAIN result :
          result[k].uri # <<>> => StoredAsConfigured(result[k])
C8_Witness ==
    /\ options.saveFile /\ options.useCurrentDir /\ options.useDateTimeSubDir
    /\ \E k \in DOMAIN result : result[k].filename = NamePng /\ result[k].uri # <<>>
    /\ \E r \in Reqs : task[r].pc = "returned" /\ task[r].processedFile.uri # <<>>

Writes == {e \in io : e.op = "writeFile"}
\* the segment of a permanent path that holds the unique id
UuidSegment(p, name) == p[Len(p) - Len(name) - 1]

\* C9 as stated: no two file-processing operations write to the same path.
C9_DistinctPaths ==
    \A e1, e2 \in Writes :
        (e1.req # e2.req \/ e1.idx # e2.idx) => e1.path # e2.path

\* C9 amended: without saveFile, or with saveFile and useDateTimeSubDir, no two
\* file-processing operations write to the same path, and under
\* useDateTimeSubDir their unique-id segments differ.
C9_DistinctPathsPerOperation ==
    (~options.saveFile \/ options.useDateTimeSubDir) =>
        \A e1, e2 \in Writes :
            (e1.req # e2.req \/ e1.idx # e2.idx) =>
                /\ e1.path # e2.path
                /\ options.saveFile =>
                      UuidSegment(e1.path, FileAt(e1.req, e1.idx).name)
                         # UuidSegment(e2.path, FileAt(e2.req, e2.idx).name)
C9_Witness ==
    /\ ~options.saveFile
    /\ LoopDone(1) /\ Len(task[1].entries) = 2
    /\ FileAt(1, 1).kind = "File" /\ FileAt(1, 2).kind = "File"
    /\ FileAt(1, 1).name = FileAt(1, 2).name
    /\ Cardinality({e \in Writes : e.req = 1}) = 2
    /\ Cardinality(DOMAIN fs) = 2

\* the upload of request r succeeded: its preconditions hold, its entries are
\* processed, none of its files was rejected and no I/O failed
FullSuccess(r) ==
    /\ LoopDone(r)
    /\ \A j \in FilePlaces(r) : Accepted(FileAt(r, j))
    /\ ~IoFailed(r)

\* C10: once next() has been called for a request whose upload succeeded, the
\* result is attached; a request whose upload failed has none attached.
C10_AttachedBeforeNext ==
    \A r \in Reqs :
        /\ (FullSuccess(r) /\ task[r].nextCalls > 0) => Attached(r)
        /\ (Started(r) /\ task[r].pc # "formData" /\ ~FullSuccess(r)
               /\ task[r].nextCalls > 0) => ~Attached(r)

\* the request failed through a precondition, a rejected file of its own at
\* the end of its entries, or an I/O failure
OwnFailure(r) ==
    /\ Started(r)
    /\ \/ Undeclared(task[r].request) \/ TooLong(task[r].request)
       \/ LoopDone(r) /\ \E j \in FilePlaces(r) : ~Accepted(FileAt(r, j))
       \/ IoFailed(r)

\* C11: a failed request has had onError called, and next() is called as soon
\* as onError is over: only while the promise of onError is pending has
\* next() not been called, and it is never called before onError.
C11_NextAfterOnError ==
    \A r \in Reqs :
        OwnFailure(r) =>
            /\ task[r].onErrorCalls = 1
            /\ IF task[r].pc = "onError"
               THEN options.onError = "async" /\ task[r].nextCalls = 0
               ELSE task[r].pc \in {"next2", "done"} /\ task[r].nextCalls = 1
C11_Witness ==
    /\ options.onError = "async"
    /\ task[1].pc = "done" /\ IoFailed(1) /\ task[1].nextCalls = 1
    /\ task[2].pc = "done" /\ Undeclared(task[2].request) /\ task[2].nextCalls = 1

\* C12: an I/O failure ends the request: onError gets the I/O error, not the
\* aggregated one; the request stays at the entry that failed, nothing is
\* attached, and neither the failing step nor a later step of the request
\* changes the error list, the result or the file system.
C12_Inv ==
    \A r \in Reqs :
        IoFailed(r) =>
            /\ task[r].error.kind \in IoKinds
            /\ task[r].error.messages = <<>>
            /\ task[r].onErrorCalls = 1
            /\ task[r].pc \in {"onError", "next2", "done"}
            /\ ~Attached(r)
            /\ task[r].i <= Len(task[r].entries)
            /\ task[r].processedFile.uri = <<>>
            /\ \A e \in io : e.req = r =>
                  /\ e.idx <= task[r].i
                  /\ e.op = "failure" => e.idx = task[r].i
C12_Step ==
    \A r \in Reqs :
        (IoFailed(r)' /\ task'[r] # task[r]) =>
            UNCHANGED <<validationErrors, result, fs, dirs, uuids>>
\* C12: the state part and the step part above, together.
C12_IoFailureEnds == []C12_Inv /\ [][C12_Step]_vars
C12_Witness ==
    \E r \in Reqs :
        /\ task[r].pc = "done" /\ IoFailed(r)
        /\ Len(task[r].entries) = 2 /\ task[r].i = 1
        /\ FileAt(r, 2).kind = "File"
        /\ validationErrors = <<>>

\* the error list holds an extension message for the file
ExtensionRuledOut(file) ==
    \E k \in 1..Len(validationErrors) :
        /\ validationErrors[k].kind = "File extension is not allowed"
        /\ validationErrors[k].filename = file.name

\* C13: the extension the validator reports is the part after the last "."
\* (nothing without a "."), and a processed file with no extension is rejected
\* for its extension exactly when the allow-list is not empty.
C13_NoExtension ==
    /\ \A k \in 1..Len(validationErrors) :
          validationErrors[k].kind = "File extension is not allowed" =>
              validationErrors[k].extension = AfterLastDot(validationErrors[k].filename)
    /\ \A r \in Reqs :
          \A j \in FilePlaces(r) :
              (Processed(r, j) /\ AfterLastDot(FileAt(r, j).name) = <<>>) =>
                  (ExtensionRuledOut(FileAt(r, j)) <=> options.extensions # <<>>)

\* the message processFiles pushes for a file it rejects
MessageFor(file) ==
    IF ExtensionRejected(SplitPop(file.name), options.extensions)
    THEN ExtensionMessage(file.name, SplitPop(file.name), options.extensions)
    ELSE SizeMessage(file.name, file.size, options.maxFileSizeBytes)
\* the messages of the rejected files among entries k.. of a form, in order
RECURSIVE OwnMessagesFrom(_, _)
OwnMessagesFrom(entries, k) ==
    IF k > Len(entries) THEN <<>>
    ELSE (IF entries[k].value.kind = "File" /\ ~Accepted(entries[k].value)
          THEN <<MessageFor(entries[k].value)>> ELSE <<>>)
            \o OwnMessagesFrom(entries, k + 1)

\* C14: the aggregated error of a request carries the messages of the rejected
\* files of that request, in its processing order, and no other message.
C14_OwnMessagesOnly ==
    \A r \in Reqs :
        task[r].error.kind = "Unprocessable Entity" =>
            task[r].error.messages = OwnMessagesFrom(task[r].entries, 1)

CountNaming(messages, name) ==
    Cardinality({k \in 1..Len(messages) : messages[k].filename = name})

\* C15: the aggregated error is raised only after every entry of the request
\* is processed; by then every file that passed validation has been read and
\* written as configured, whatever was rejected before it, no rejected file
\* was read or written, and the error has a message for each rejected file.
C15_SiblingsProcessed ==
    \A r \in Reqs :
        task[r].error.kind = "Unprocessable Entity" =>
            /\ LoopDone(r)
            /\ \A j \in FilePlaces(r) :
                  IF Accepted(FileAt(r, j))
                  THEN /\ \E e \in IoOf(r, j) :
                             /\ e.op = "writeFile"
                             /\ e.path \in DOMAIN fs
                             /\ fs[e.path].name = FileAt(r, j).name
                             /\ StartsWith(e.path, TempUploadsDir) <=> ~options.saveFile
                       /\ \E e \in IoOf(r, j) : e.op = "arrayBuffer"
                  ELSE /\ IoOf(r, j) = {}
                       /\ CountNaming(task[r].error.messages, FileAt(r, j).name)
                             >= Cardinality({m \in FilePlaces(r) :
                                    /\ ~Accepted(FileAt(r, m))
                                    /\ FileAt(r, m).name = FileAt(r, j).name})
C15_Witness ==
    \E r \in Reqs :
        /\ task[r].pc = "done" /\ task[r].error.kind = "Unprocessable Entity"
        /\ Len(task[r].entries) = 2
        /\ FileAt(r, 1).kind = "File" /\ ~Accepted(FileAt(r, 1))
        /\ FileAt(r, 2).kind = "File" /\ Accepted(FileAt(r, 2))
        /\ task[r].entries[1].key # task[r].entries[2].key
        /\ \E e \in IoOf(r, 2) : e.op = "writeFile" /\ e.path \in DOMAIN fs

\* C17: next() is called at most once for a request, and exactly once by the
\* time the middleware is over, whether the request succeeded or failed.
C17_NextOnce ==
    \A r \in Reqs :
        /\ task[r].nextCalls <= 1
        /\ task[r].pc = "done" => task[r].nextCalls = 1

\* C18: onError is called only with a precondition, validation or I/O error:
\* never for a request whose result was attached, even when next() fails.
C18_OnErrorOnlyForUpload ==
    \A r \in Reqs :
        task[r].onErrorCalls > 0 =>
            /\ ~Attached(r)
            /\ task[r].error.kind \in
                   PreconditionKinds \cup IoKinds \cup {"Unprocessable Entity"}

\* the entry describes a file that passed validation and is on disk at its uri
WrittenEntry(entry, files) ==
    /\ entry.uri # <<>>
    /\ entry.uri \in DOMAIN files
    /\ files[entry.uri].name = entry.filename
    /\ Accepted(File(entry.filename, entry.size))
\* C19: in the step that attaches the result to a request, every entry of the
\* result describes a file that passed validation and was written: its uri is
\* not empty and names a file on disk; no entry of a rejected file is in it.
C19_Step ==
    \A r \in Reqs :
        (~Attached(r) /\ Attached(r)') =>
            \A k \in DOMAIN result' : WrittenEntry(result'[k], fs')
C19_AttachedEntriesWritten == [][C19_Step]_vars
\* both requests got a result attached, one after the other, with two entries
C19_Witness ==
    /\ Attached(1) /\ task[1].pc = "done"
    /\ Attached(2) /\ task[2].pc = "next1"
    /\ Len(task[1].entries) = 1 /\ Len(task[2].entries) = 1
    /\ Cardinality(DOMAIN result) = 2
    /\ \A k \in DOMAIN result : WrittenEntry(result[k], fs)

\* the places of the File entries request r carries under a field name
PlacesUnder(r, key) == {j \in FilePlaces(r) : task[r].entries[j].key = key}
LastUnder(r, key) ==
    CHOOSE j \in PlacesUnder(r, key) : \A k \in PlacesUnder(r, key) : k <= j

\* C16: once the entries of a request are processed and its result is handed
\* downstream, a field that carried several files has one result entry with the
\* filename, size and type of the last file under that field, and every
\* accepted file under the field is on disk at a path no other of them has.
C16_LastFileWins ==
    \A r \in Reqs :
        task[r].pc = "next1" =>
            \A key \in FieldNames :
                Cardinality(PlacesUnder(r, key)) >= 2 =>
                    /\ key \in DOMAIN result
                    /\ result[key].filename = FileAt(r, LastUnder(r, key)).name
                    /\ result[key].size = FileAt(r, LastUnder(r, key)).size
                    /\ result[key].type = FileAt(r, LastUnder(r, key)).type
                    /\ \A j \in PlacesUnder(r, key) :
                          Accepted(FileAt(r, j)) =>
                              \E e \in IoOf(r, j) :
                                  /\ e.op = "writeFile"
                                  /\ e.path \in DOMAIN fs
                                  /\ fs[e.path].name = FileAt(r, j).name
                    /\ \A j, k \in PlacesUnder(r, key) :
                          \A e1 \in IoOf(r, j), e2 \in IoOf(r, k) :
                              (j # k /\ e1.op = "writeFile" /\ e2.op = "writeFile")
                                  => e1.path # e2.path

====
